---- MODULE Spec2Model ----
(***************************************************************************)
(* Model of the video service of src/main.py: the two upload handlers      *)
(* convert_video_to_audio (POST /convert) and clip_video (POST /clip), the *)
(* helper cleanup_files, and the scratch directory TEMP_DIR they share.    *)
(*                                                                         *)
(* Scheduling.  Both handlers are `async def` and run on the one event     *)
(* loop that uvicorn.run(app, ...) starts (main.py:354-356).  The only     *)
(* await inside a handler is `await file.read()` (main.py:108, 227), so a  *)
(* handler runs without interleaving from its entry to that await, and     *)
(* from its resumption to its return or raise.  The variable `loop` holds  *)
(* the request that owns the event loop.  The response body is sent on     *)
(* the loop after the handler returned, and a background task that is a    *)
(* plain function (cleanup_files) runs in a worker thread after the        *)
(* response was sent: its deletions interleave with everything.            *)
(*                                                                         *)
(* Strings are sequences of tokens; "." is a token of its own so that      *)
(* Path(...).stem and Path(...).suffix are computed, not assumed.          *)
(***************************************************************************)
EXTENDS Integers, Sequences, FiniteSets, TLC

\* ---------------------------------------------------------------- bounds
MaxPlanLen == 2
MaxTime == 2
MaxPaths == 2

\* two requests in flight together: what interference between requests needs
Reqs == {1, 2}

\* str(n) for the small numbers the model formats into file names
Str(n) == <<"1", "2", "3", "4", "5", "6", "7", "8", "9">>[n]

\* ------------------------------------------------------- optional strings
None == [some |-> FALSE, s |-> <<>>]
Some(toks) == [some |-> TRUE, s |-> toks]

\* Python truthiness of an optional string: None and "" are falsy.
Truthy(o) == o.some /\ o.s # <<>>

\* str.startswith
StartsWith(s, p) == Len(s) >= Len(p) /\ SubSeq(s, 1, Len(p)) = p

\* str.rfind(".") on a token sequence: the last index holding ".", 0 if none.
RFindDot(s) ==
    LET idx == {k \in 1..Len(s) : s[k] = "."}
    IN  IF idx = {} THEN 0 ELSE CHOOSE k \in idx : \A j \in idx : j <= k

\* pathlib: PurePath.suffix / PurePath.stem of a bare file name.  The dot
\* counts only when it is neither the first nor the last token of the name.
Suffix(name) ==
    LET k == RFindDot(name)
    IN  IF 1 < k /\ k < Len(name) THEN SubSeq(name, k, Len(name)) ELSE <<>>

Stem(name) ==
    LET k == RFindDot(name)
    IN  IF 1 < k /\ k < Len(name) THEN SubSeq(name, 1, k - 1) ELSE name

\* main.py:97, 215
VideoExt(filename) ==
    IF Truthy(filename) THEN Suffix(filename.s) ELSE <<".", "mp4">>

\* main.py:113
AudioFilename(filename) ==
    IF Truthy(filename) THEN Stem(filename.s) \o <<".", "mp3">>
    ELSE <<"output", ".", "mp3">>

\* main.py:247
BaseFilename(filename) ==
    IF Truthy(filename) THEN Stem(filename.s) ELSE <<"video">>

\* main.py:249
ZipFilename(filename) == BaseFilename(filename) \o <<"_clips", ".", "zip">>

\* a variant of ClipFilename that numbers the clip of a one-entry plan too
ClipFilenameAlwaysNumbered(filename, total_clips, i) ==
    BaseFilename(filename) \o <<"_clip", "_", Str(i + 1), ".", "mp4">>

\* main.py:266-267; i is the 0-based index of enumerate
ClipFilename(filename, total_clips, i) ==
    LET clip_suffix == IF total_clips = 1 THEN <<>> ELSE <<"_", Str(i + 1)>>
    IN  BaseFilename(filename) \o <<"_clip">> \o clip_suffix \o <<".", "mp4">>

\* TEMP_DIR / name (main.py:22, 114, 250, 268)
InTemp(name) == <<"temp", "/">> \o name

\* a variant of TempName that takes the name from the upload alone
TempNameFromUpload(r, ext) == InTemp(<<"upload">> \o ext)

\* tempfile.NamedTemporaryFile(delete=False, suffix=ext, dir=TEMP_DIR): a name
\* no other file of the directory has; the request id stands for the random part.
TempName(r, ext) == InTemp(<<"tmp", Str(r)>> \o ext)

\* ------------------------------------------------------------ clip plans
\* A JSON value of the `clips` form field.  wellformed: json.loads succeeds;
\* isList: the value is a list; items: its elements.  An element is a dict
\* or not; a dict's "start"/"end" is missing, a string, a number, true or
\* false, or NaN (json.loads reads the literal NaN as float('nan')).
Num(n) == [t |-> "num", v |-> n]
Missing == [t |-> "missing", v |-> 0]
NotNum == [t |-> "str", v |-> 0]
Bool(b) == [t |-> "bool", v |-> IF b THEN 1 ELSE 0]
NaN == [t |-> "nan", v |-> 0]

\* isinstance(x, (int, float)): bool is a subclass of int, NaN is a float
IsNumber(x) == x.t \in {"num", "bool", "nan"}

\* Python's x < n, x <= y, x > n on such values: True and False compare as
\* 1 and 0, and every comparison with NaN is False
Lt(x, n) == x.t # "nan" /\ x.v < n
Le(x, y) == x.t # "nan" /\ y.t # "nan" /\ x.v <= y.v
Gt(x, n) == x.t # "nan" /\ x.v > n

Times == -1..MaxTime

\* a variant of ClipError without the rule of main.py:197
ClipErrorNoOrderRule(clip, i) ==
    IF ~clip.isDict THEN <<"must be a dictionary", i>>
    ELSE IF clip.start.t = "missing" \/ clip.end.t = "missing"
        THEN <<"must have 'start' and 'end' keys", i>>
    ELSE IF ~IsNumber(clip.start) \/ ~IsNumber(clip.end)
        THEN <<"start and end must be numbers", i>>
    ELSE IF Lt(clip.start, 0) \/ Lt(clip.end, 0)
        THEN <<"start and end must be non-negative", i>>
    ELSE <<"ok", i>>

\* main.py:184-201: returns the ValueError of the first rule broken, or "ok"
ClipError(clip, i) ==
    IF ~clip.isDict THEN <<"must be a dictionary", i>>
    ELSE IF clip.start.t = "missing" \/ clip.end.t = "missing"
        THEN <<"must have 'start' and 'end' keys", i>>
    ELSE IF ~IsNumber(clip.start) \/ ~IsNumber(clip.end)
        THEN <<"start and end must be numbers", i>>
    ELSE IF Lt(clip.start, 0) \/ Lt(clip.end, 0)
        THEN <<"start and end must be non-negative", i>>
    ELSE IF Le(clip.end, clip.start)
        THEN <<"end must be greater than start", i>>
    ELSE <<"ok", i>>

\* main.py:182-212: the detail of the 400, or <<"ok">>
ParseClipsResult(clips) ==
    IF ~clips.wellformed THEN <<"Invalid JSON format for clips">>
    ELSE IF ~clips.isList THEN <<"Clips must be a list">>
    ELSE LET bad == {k \in 1..Len(clips.items) :
                        ClipError(clips.items[k], k - 1)[1] # "ok"}
         IN  IF bad # {}
             THEN ClipError(clips.items[CHOOSE k \in bad : \A j \in bad : k <= j],
                            (CHOOSE k \in bad : \A j \in bad : k <= j) - 1)
             ELSE IF Len(clips.items) = 0
                 THEN <<"At least one clip must be specified">>
             ELSE <<"ok">>

\* a variant of FirstExceeding that reports the last such clip
LastExceeding(clips_data, video_duration) ==
    LET bad == {k \in 1..Len(clips_data) : Gt(clips_data[k].end, video_duration)}
    IN  IF bad = {} THEN -1 ELSE (CHOOSE k \in bad : \A j \in bad : j <= k) - 1

\* main.py:238-244: the 0-based index of the first clip whose end exceeds the
\* duration, or -1
FirstExceeding(clips_data, video_duration) ==
    LET bad == {k \in 1..Len(clips_data) : Gt(clips_data[k].end, video_duration)}
    IN  IF bad = {} THEN -1 ELSE (CHOOSE k \in bad : \A j \in bad : k <= j) - 1

\* ----------------------------------------------------------------- state
VARIABLES
    pc,        \* per request: the handler's position
    req,       \* per request: what the client sent
    loc,       \* per request: the handler's local variables
    fs,        \* the scratch directory TEMP_DIR: path -> file
    loop,      \* the request whose handler owns the event loop, 0 if none
    resp,      \* per request: the response the client got
    bg,        \* per request: the background task (args as scheduled, paths left)
    calls,     \* per request: the media-engine calls made, in order, each
               \* <<operation, start or probed duration, end, path>> (and for
               \* cleanup_files called on its own: the directory's size before)
    cleanups,  \* per request: how many times cleanup_files was entered
    failing    \* the paths whose removal raises (os.remove or shutil.rmtree
               \* fails, as on a path another process holds or has protected)

vars == <<pc, req, loc, fs, loop, resp, bg, calls, cleanups, failing>>

NoPath == <<>>

NoLocals ==
    [temp_video_path |-> NoPath, temp_out_path |-> NoPath, clip_paths |-> <<>>,
     clips_data |-> <<>>, video_duration |-> 0, i |-> 0, zipf |-> <<>>]

NoBody == [state |-> "none", writer |-> 0, content |-> <<>>]

NoRequest ==
    [endpoint |-> "none", content_type |-> None, filename |-> None,
     clips |-> [wellformed |-> TRUE, isList |-> TRUE, items |-> <<>>]]

Init ==
    /\ pc = [r \in Reqs |-> "idle"]
    /\ req = [r \in Reqs |-> NoRequest]
    /\ loc = [r \in Reqs |-> NoLocals]
    /\ fs = <<>>
    /\ loop = 0
    /\ resp = [r \in Reqs |-> [status |-> 0, detail |-> <<>>, body |-> NoBody]]
    /\ bg = [r \in Reqs |-> [args |-> <<>>, left |-> <<>>]]
    /\ calls = [r \in Reqs |-> <<>>]
    /\ cleanups = [r \in Reqs |-> 0]
    /\ failing = {}

\* ------------------------------------------------------------ file system
Exists(dir, p) == p \in DOMAIN dir

\* open(p, "w") and write: the file at p is created or replaced
WriteFile(dir, p, r, content) ==
    [q \in DOMAIN dir \cup {p} |->
        IF q = p THEN [writer |-> r, content |-> content] ELSE dir[q]]

\* os.remove
RemoveFile(dir, p) == [q \in DOMAIN dir \ {p} |-> dir[q]]

\* q lies below the directory p
Under(q, p) == StartsWith(q, p \o <<"/">>)

\* os.path.isdir: a path with entries below it (an empty directory is
\* removed like a file)
IsDir(dir, p) == \E q \in DOMAIN dir : Under(q, p)

\* shutil.rmtree
RemoveTree(dir, p) ==
    [q \in {x \in DOMAIN dir : x # p /\ ~Under(x, p)} |-> dir[q]]

\* main.py:346-349
Remove(dir, p) == IF IsDir(dir, p) THEN RemoveTree(dir, p) ELSE RemoveFile(dir, p)

\* the removal of p raises: p or an entry below it is one of `bad`
RemovalRaises(dir, p, bad) ==
    p \in bad \/ \E q \in DOMAIN dir \cap bad : Under(q, p)

\* a variant of CleanupOne without the try/except around the removal
CleanupOneNoExcept(dir, file_path, bad) ==
    IF file_path # NoPath /\ Exists(dir, file_path)
    THEN IF RemovalRaises(dir, file_path, bad)
         THEN [dir |-> dir, raised |-> TRUE]
         ELSE [dir |-> Remove(dir, file_path), raised |-> FALSE]
    ELSE [dir |-> dir, raised |-> FALSE]

\* main.py:343-351, one pass of the loop body: the entry is skipped when it is
\* None or empty or names nothing, and removed otherwise; the removal raises
\* for the paths of `bad`, and `except Exception: pass` swallows that.  The
\* result is the directory and whether an exception left the loop body.
CleanupOne(dir, file_path, bad) ==
    IF file_path # NoPath /\ Exists(dir, file_path)
    THEN IF RemovalRaises(dir, file_path, bad)
         THEN [dir |-> dir, raised |-> FALSE]
         ELSE [dir |-> Remove(dir, file_path), raised |-> FALSE]
    ELSE [dir |-> dir, raised |-> FALSE]

\* main.py:341-351: an exception that leaves the loop body ends the loop
RECURSIVE cleanup_files(_, _, _)
cleanup_files(dir, file_paths, bad) ==
    IF file_paths = <<>> THEN [dir |-> dir, raised |-> FALSE]
    ELSE LET one == CleanupOne(dir, Head(file_paths), bad)
         IN  IF one.raised THEN one
             ELSE cleanup_files(one.dir, Tail(file_paths), bad)

\* ------------------------------------------------------------ the inputs
Endpoints == {"convert", "clip"}

VideoMp4 == Some(<<"video", "/", "mp4">>)
TextPlain == Some(<<"text", "/", "plain">>)
ContentTypes == {None, Some(<<>>), VideoMp4, TextPlain}

Filenames == {None, Some(<<"a", ".", "mp4">>), Some(<<"a", ".", "mov">>)}

Durations == 1..MaxTime

NumClip(a, b) == [isDict |-> TRUE, start |-> Num(a), end |-> Num(b)]
NumClips == {NumClip(a, b) : a \in Times, b \in Times}

JsonList(items) == [wellformed |-> TRUE, isList |-> TRUE, items |-> items]
BadJson == [wellformed |-> FALSE, isList |-> FALSE, items |-> <<>>]
NotAList == [wellformed |-> TRUE, isList |-> FALSE, items |-> <<>>]

SeqsUpTo(S, n) == UNION {[1..k -> S] : k \in 0..n}

\* every plan of numeric entries, and the two malformed documents
NumericPlans == {JsonList(items) : items \in SeqsUpTo(NumClips, MaxPlanLen)}
                    \cup {BadJson, NotAList}

\* what "start" or "end" of an entry may hold, and every entry built of them
Values == {Missing, NotNum, NaN, Bool(FALSE), Bool(TRUE)} \cup {Num(n) : n \in -1..1}
NotADict == [isDict |-> FALSE, start |-> Missing, end |-> Missing]
Clips == {[isDict |-> TRUE, start |-> a, end |-> b] : a \in Values, b \in Values}
            \cup {NotADict}

\* every document the clips field may hold
AllPlans == {JsonList(items) : items \in SeqsUpTo(Clips, MaxPlanLen)}
                \cup {BadJson, NotAList}

\* the plans of the concurrent specification: one rejected by the parser, and
\* for every length one valid plan whose k-th clip ends at k
StairPlan(n) == JsonList([k \in 1..n |-> NumClip(k - 1, k)])
FewPlans == {JsonList(<<NumClip(1, 0)>>)} \cup {StairPlan(n) : n \in 1..MaxPlanLen}

\* -------------------------------------------------------------- responses
\* the handler ends by raising HTTPException(status, detail): its locals are
\* gone, the event loop is free again and nothing of the request runs later
Raise(r, status, detail) ==
    /\ pc' = [pc EXCEPT ![r] = "done"]
    /\ resp' = [resp EXCEPT ![r] = [status |-> status, detail |-> detail, body |-> NoBody]]
    /\ loc' = [loc EXCEPT ![r] = NoLocals]
    /\ loop' = 0

\* ---------------------------------------------------- both handlers: entry
\* A request arrives and its handler starts on the event loop.  A field of
\* the upload (content type, clips, filename) gets its value in the step
\* where the handler first reads it.
Arrive(r) ==
    /\ pc[r] = "idle"
    /\ loop = 0
    /\ \E e \in Endpoints : req' = [req EXCEPT ![r].endpoint = e]
    /\ pc' = [pc EXCEPT ![r] = "check_type"]
    /\ loop' = r
    /\ UNCHANGED <<loc, fs, resp, bg, calls, cleanups, failing>>

\* a variant of IsVideo that accepts every non-empty content type
IsVideoAnyType(content_type) == Truthy(content_type)

\* main.py:90, 175
IsVideo(content_type) ==
    Truthy(content_type) /\ StartsWith(content_type.s, <<"video", "/">>)

\* main.py:89-94, 174-179
CheckContentType(r, content_types) ==
    /\ pc[r] = "check_type"
    /\ loop = r
    /\ \E content_type \in content_types :
          /\ req' = [req EXCEPT ![r].content_type = content_type]
          /\ IF ~IsVideo(content_type)
             THEN Raise(r, 400, <<"Invalid file type. Please upload a video file.">>)
             ELSE /\ pc' = [pc EXCEPT ![r] =
                              IF req[r].endpoint = "clip" THEN "parse" ELSE "create_temp"]
                  /\ UNCHANGED <<loc, resp, loop>>
    /\ UNCHANGED <<fs, bg, calls, cleanups, failing>>

\* main.py:181-212
ParseClips(r, plans) ==
    /\ pc[r] = "parse"
    /\ loop = r
    /\ \E clips \in plans :
          /\ req' = [req EXCEPT ![r].clips = clips]
          /\ IF ParseClipsResult(clips) # <<"ok">>
             THEN Raise(r, 400, ParseClipsResult(clips))
             ELSE /\ loc' = [loc EXCEPT ![r].clips_data = clips.items]
                  /\ pc' = [pc EXCEPT ![r] = "create_temp"]
                  /\ UNCHANGED <<resp, loop>>
    /\ UNCHANGED <<fs, bg, calls, cleanups, failing>>

\* main.py:103-108, 222-227: NamedTemporaryFile creates the file, then the
\* handler awaits file.read() and the event loop is free
CreateTemp(r) ==
    /\ pc[r] = "create_temp"
    /\ loop = r
    /\ \E filename \in Filenames :
          /\ req' = [req EXCEPT ![r].filename = filename]
          /\ fs' = WriteFile(fs, TempName(r, VideoExt(filename)), r, <<>>)
    /\ pc' = [pc EXCEPT ![r] = "read"]
    /\ loop' = 0
    /\ UNCHANGED <<loc, resp, bg, calls, cleanups, failing>>

\* main.py:108-110, 227-229: the handler resumes; the read and the write
\* succeed and temp_video_path is bound, or one of them raises inside the
\* with block, which closes the file and leaves temp_video_path None
ReadUpload(r) ==
    /\ pc[r] = "read"
    /\ loop = 0
    /\ loop' = r
    /\ \/ /\ loc' = [loc EXCEPT ![r].temp_video_path =
                        TempName(r, VideoExt(req[r].filename))]
          /\ pc' = [pc EXCEPT ![r] =
                        IF req[r].endpoint = "clip" THEN "probe" ELSE "extract_audio"]
       \/ /\ pc' = [pc EXCEPT ![r] = "except"]
          /\ UNCHANGED loc
    /\ UNCHANGED <<req, fs, resp, bg, calls, cleanups, failing>>

\* the media engine is outside the service: a call returns after writing its
\* output, raises with or without a partial output, or returns without output
EngineOutcomes == {"ok", "raise", "raise_partial", "no_output"}

Wrote(outcome) == outcome \in {"ok", "raise_partial"}
Raised(outcome) == outcome \in {"raise", "raise_partial"}

\* ------------------------------------------------------------- /convert
\* main.py:112-125
ExtractAudio(r) ==
    /\ pc[r] = "extract_audio"
    /\ loop = r
    /\ LET temp_audio_path == InTemp(AudioFilename(req[r].filename))
       IN  \E outcome \in EngineOutcomes :
             /\ loc' = [loc EXCEPT ![r].temp_out_path = temp_audio_path]
             /\ calls' = [calls EXCEPT ![r] =
                            Append(@, <<"audio", 0, 0, temp_audio_path>>)]
             /\ fs' = IF Wrote(outcome)
                      THEN WriteFile(fs, temp_audio_path, r, <<>>) ELSE fs
             /\ pc' = [pc EXCEPT ![r] =
                            IF Raised(outcome) THEN "except" ELSE "check_output"]
    /\ UNCHANGED <<req, loop, resp, bg, cleanups, failing>>

\* a variant of ScheduleCleanup that calls cleanup_files before the handler
\* returns instead of handing it to the background tasks
CleanupBeforeResponse(r, file_paths) ==
    /\ cleanups' = [cleanups EXCEPT ![r] = @ + 1]
    /\ fs' = cleanup_files(fs, file_paths, failing).dir
    /\ bg' = [bg EXCEPT ![r] = [args |-> file_paths, left |-> <<>>]]
    /\ pc' = [pc EXCEPT ![r] = "send"]
    /\ loop' = 0
    /\ UNCHANGED <<loc, resp>>

\* main.py:136, 321: background_tasks.add_task(cleanup_files, file_paths), and
\* the handler returns the FileResponse
ScheduleCleanup(r, file_paths) ==
    /\ bg' = [bg EXCEPT ![r] = [args |-> file_paths, left |-> file_paths]]
    /\ pc' = [pc EXCEPT ![r] = "send"]
    /\ loop' = 0
    /\ UNCHANGED <<loc, fs, resp, cleanups>>

\* a variant of CleanupAndRaise that raises the 500 and removes nothing
RaiseWithoutCleanup(r, file_paths, detail) ==
    /\ Raise(r, 500, detail)
    /\ UNCHANGED <<fs, bg, cleanups>>

\* main.py:129-133, 313-317: cleanup_files(file_paths) now, then the 500
CleanupAndRaise(r, file_paths, detail) ==
    /\ cleanups' = [cleanups EXCEPT ![r] = @ + 1]
    /\ fs' = cleanup_files(fs, file_paths, failing).dir
    /\ Raise(r, 500, detail)
    /\ UNCHANGED bg

\* main.py:127-143
CheckAudio(r) ==
    /\ pc[r] = "check_output"
    /\ req[r].endpoint = "convert"
    /\ loop = r
    /\ IF ~Exists(fs, loc[r].temp_out_path)
       THEN CleanupAndRaise(r, <<loc[r].temp_video_path>>,
                            <<"Failed to convert video to audio">>)
       ELSE ScheduleCleanup(r, <<loc[r].temp_video_path, loc[r].temp_out_path>>)
    /\ UNCHANGED <<req, calls, failing>>

\* main.py:147-153, 332-338: `except Exception`.  str(None-or-path) is the
\* path, or None when the variable is still None
ExceptHandler(r) ==
    /\ pc[r] = "except"
    /\ loop = r
    /\ CleanupAndRaise(r,
            <<loc[r].temp_video_path, loc[r].temp_out_path>> \o loc[r].clip_paths,
            IF req[r].endpoint = "clip" THEN <<"Error clipping video">>
            ELSE <<"Error converting video">>)
    /\ UNCHANGED <<req, calls, failing>>

\* ----------------------------------------------------------------- /clip
\* main.py:231-235
ProbeDuration(r) ==
    /\ pc[r] = "probe"
    /\ loop = r
    /\ \/ \E d \in Durations :
             /\ loc' = [loc EXCEPT ![r].video_duration = d]
             /\ calls' = [calls EXCEPT ![r] =
                            Append(@, <<"probe", d, 0, loc[r].temp_video_path>>)]
             /\ pc' = [pc EXCEPT ![r] = "validate"]
       \/ /\ pc' = [pc EXCEPT ![r] = "except"]
          /\ calls' = [calls EXCEPT ![r] =
                            Append(@, <<"probe", 0, 0, loc[r].temp_video_path>>)]
          /\ UNCHANGED loc
    /\ UNCHANGED <<req, fs, loop, resp, bg, cleanups, failing>>

\* main.py:237-244
ValidateDuration(r) ==
    /\ pc[r] = "validate"
    /\ loop = r
    /\ LET i == FirstExceeding(loc[r].clips_data, loc[r].video_duration)
       IN  IF i >= 0
           THEN Raise(r, 400, <<"end time exceeds video duration", i,
                                loc[r].clips_data[i + 1].end.v, loc[r].video_duration>>)
           ELSE /\ pc' = [pc EXCEPT ![r] = "open_zip"]
                /\ UNCHANGED <<loc, resp, loop>>
    /\ UNCHANGED <<req, fs, bg, calls, cleanups, failing>>

\* main.py:246-253: ZipFile(temp_zip_path, 'w') creates or truncates the file
OpenZip(r) ==
    /\ pc[r] = "open_zip"
    /\ loop = r
    /\ LET temp_zip_path == InTemp(ZipFilename(req[r].filename))
       IN  /\ loc' = [loc EXCEPT ![r].temp_out_path = temp_zip_path,
                                 ![r].zipf = <<>>, ![r].i = 0]
           /\ fs' = WriteFile(fs, temp_zip_path, r, <<>>)
    /\ pc' = [pc EXCEPT ![r] = "extract"]
    /\ UNCHANGED <<req, loop, resp, bg, calls, cleanups, failing>>

\* main.py:268
ClipPath(r) ==
    InTemp(ClipFilename(req[r].filename, Len(loc[r].clips_data), loc[r].i))

\* main.py:254-288: a raise of the engine becomes HTTPException(500), which
\* leaves the with block (the archive is closed) and the handler
ExtractClip(r) ==
    /\ pc[r] = "extract"
    /\ loop = r
    /\ LET clip == loc[r].clips_data[loc[r].i + 1]
       IN  \E outcome \in EngineOutcomes :
             /\ calls' = [calls EXCEPT ![r] =
                            Append(@, <<"subclip", clip.start.v, clip.end.v, ClipPath(r)>>)]
             /\ fs' = IF Wrote(outcome)
                      THEN WriteFile(fs, ClipPath(r), r, <<>>) ELSE fs
             /\ IF Raised(outcome)
                THEN Raise(r, 500, <<"Failed to create clip", loc[r].i + 1>>)
                ELSE /\ pc' = [pc EXCEPT ![r] = "check_clip"]
                     /\ UNCHANGED <<loc, resp, loop>>
    /\ UNCHANGED <<req, bg, cleanups, failing>>

\* a variant of CheckClip that skips an entry whose clip file is absent and
\* goes on with the next entry
CheckClipSkipsMissing(r) ==
    /\ pc[r] = "check_clip"
    /\ loop = r
    /\ IF ~Exists(fs, ClipPath(r))
       THEN /\ loc' = [loc EXCEPT ![r].i = @ + 1]
            /\ pc' = [pc EXCEPT ![r] =
                          IF loc[r].i + 1 < Len(loc[r].clips_data)
                          THEN "extract" ELSE "check_output"]
            /\ UNCHANGED <<resp, loop>>
       ELSE /\ pc' = [pc EXCEPT ![r] = "add_zip"]
            /\ UNCHANGED <<loc, resp, loop>>
    /\ UNCHANGED <<req, fs, bg, calls, cleanups, failing>>

\* main.py:290-300
CheckClip(r) ==
    /\ pc[r] = "check_clip"
    /\ loop = r
    /\ IF ~Exists(fs, ClipPath(r))
       THEN Raise(r, 500, <<"Clip was not created successfully", loc[r].i + 1>>)
       ELSE /\ pc' = [pc EXCEPT ![r] = "add_zip"]
            /\ UNCHANGED <<loc, resp, loop>>
    /\ UNCHANGED <<req, fs, bg, calls, cleanups, failing>>

\* zipf.write(clip_path, clip_filename): the entry is appended to the open
\* archive, which is the file at temp_zip_path unless that was unlinked
ZipWrite(r, clip_filename) ==
    LET zipf == Append(loc[r].zipf, clip_filename)
    IN  /\ loc' = [loc EXCEPT ![r].zipf = zipf,
                              ![r].clip_paths = Append(@, ClipPath(r)),
                              ![r].i = @ + 1]
        /\ fs' = IF Exists(fs, loc[r].temp_out_path)
                 THEN WriteFile(fs, loc[r].temp_out_path, r, zipf) ELSE fs

\* main.py:302-309: the write raises when the clip file is gone (or the disk
\* is full): the with block closes the archive and `except Exception` runs
AddToZip(r) ==
    /\ pc[r] = "add_zip"
    /\ loop = r
    /\ \/ /\ Exists(fs, ClipPath(r))
          /\ ZipWrite(r, ClipFilename(req[r].filename, Len(loc[r].clips_data), loc[r].i))
          /\ pc' = [pc EXCEPT ![r] =
                        IF loc[r].i + 1 < Len(loc[r].clips_data)
                        THEN "extract" ELSE "check_output"]
       \/ /\ pc' = [pc EXCEPT ![r] = "except"]
          /\ UNCHANGED <<loc, fs>>
    /\ UNCHANGED <<req, loop, resp, bg, calls, cleanups, failing>>

\* main.py:311-328
CheckZip(r) ==
    /\ pc[r] = "check_output"
    /\ req[r].endpoint = "clip"
    /\ loop = r
    /\ IF ~Exists(fs, loc[r].temp_out_path)
       THEN CleanupAndRaise(r, <<loc[r].temp_video_path>> \o loc[r].clip_paths,
                            <<"Failed to create clips zip file">>)
       ELSE ScheduleCleanup(r, <<loc[r].temp_video_path, loc[r].temp_out_path>>
                                    \o loc[r].clip_paths)
    /\ UNCHANGED <<req, calls, failing>>

\* ------------------------------------------------- after the handler
\* main.py:139-143, 324-328: FileResponse(path=...) is sent on the event
\* loop after the handler returned: the bytes are those of the file the
\* path names then.  A path that names nothing fails the response, and
\* the background task of a failed response never runs.
Transmit(r) ==
    /\ pc[r] = "send"
    /\ loop = 0
    /\ LET path == loc[r].temp_out_path
       IN  IF Exists(fs, path)
           THEN /\ resp' = [resp EXCEPT ![r] =
                     [status |-> 200, detail |-> <<>>,
                      body |-> [state |-> "file", writer |-> fs[path].writer,
                                content |-> fs[path].content]]]
                /\ pc' = [pc EXCEPT ![r] = "background"]
           ELSE /\ resp' = [resp EXCEPT ![r] =
                     [status |-> 500, detail |-> <<"File at path does not exist">>,
                      body |-> NoBody]]
                /\ pc' = [pc EXCEPT ![r] = "done"]
    /\ loc' = [loc EXCEPT ![r] = NoLocals]
    /\ UNCHANGED <<req, fs, loop, bg, calls, cleanups, failing>>

\* main.py:341-351 as the background task: a worker thread runs the loop,
\* one entry at a time, beside whatever the event loop runs
BackgroundCleanup(r) ==
    /\ pc[r] = "background"
    /\ IF bg[r].left = <<>>
       THEN /\ pc' = [pc EXCEPT ![r] = "done"]
            /\ UNCHANGED <<fs, bg, cleanups>>
       ELSE /\ fs' = CleanupOne(fs, Head(bg[r].left), failing).dir
            /\ bg' = [bg EXCEPT ![r].left = Tail(@)]
            /\ cleanups' = [cleanups EXCEPT ![r] =
                                IF bg[r].left = bg[r].args THEN @ + 1 ELSE @]
            /\ UNCHANGED pc
    /\ UNCHANGED <<req, loc, loop, resp, calls, failing>>

\* ------------------------------------------- cleanup_files on its own
\* a file, a directory and a file in that directory
CleanupPaths == {InTemp(<<"a">>), InTemp(<<"d">>), InTemp(<<"d", "/", "x">>)}

\* the scratch directory holds any of them (a file only with its directory),
\* the removal of any of those raises, and cleanup_files gets any list of up
\* to MaxPaths entries: None, paths that exist and paths that do not
InitCleanup ==
    /\ pc = [r \in Reqs |-> IF r = 1 THEN "cleanup" ELSE "idle"]
    /\ req = [r \in Reqs |-> NoRequest]
    /\ loc = [r \in Reqs |-> NoLocals]
    /\ loop = 0
    /\ resp = [r \in Reqs |-> [status |-> 0, detail |-> <<>>, body |-> NoBody]]
    /\ calls = [r \in Reqs |-> <<>>]
    /\ cleanups = [r \in Reqs |-> 0]
    /\ \E S \in SUBSET CleanupPaths :
          /\ \A q \in S : \A p \in CleanupPaths : Under(q, p) => p \in S
          /\ fs = [p \in S |-> [writer |-> 0, content |-> <<>>]]
          /\ failing \in SUBSET S
    /\ \E file_paths \in SeqsUpTo(CleanupPaths \cup {NoPath}, MaxPaths) :
          bg = [r \in Reqs |-> IF r = 1
                                THEN [args |-> file_paths, left |-> file_paths]
                                ELSE [args |-> <<>>, left |-> <<>>]]

\* main.py:341-351: cleanup_files(file_paths) is called, and called again
\* with the same list
CallCleanup(r) ==
    /\ pc[r] \in {"cleanup", "cleanup_again"}
    /\ LET result == cleanup_files(fs, bg[r].args, failing)
       IN  /\ fs' = result.dir
           /\ pc' = [pc EXCEPT ![r] =
                         IF result.raised THEN "raised"
                         ELSE IF pc[r] = "cleanup" THEN "cleanup_again" ELSE "done"]
    /\ cleanups' = [cleanups EXCEPT ![r] = @ + 1]
    /\ calls' = [calls EXCEPT ![r] =
                    Append(@, <<"cleanup_files", Cardinality(DOMAIN fs), 0, NoPath>>)]
    /\ UNCHANGED <<req, loc, loop, resp, bg, failing>>

\* ------------------------------------------------------- specifications
Step(r, content_types, plans) ==
    \/ CheckContentType(r, content_types)
    \/ ParseClips(r, plans)
    \/ CreateTemp(r)
    \/ ReadUpload(r)
    \/ ExtractAudio(r)
    \/ CheckAudio(r)
    \/ ExceptHandler(r)
    \/ ProbeDuration(r)
    \/ ValidateDuration(r)
    \/ OpenZip(r)
    \/ ExtractClip(r)
    \/ CheckClip(r)
    \/ AddToZip(r)
    \/ CheckZip(r)
    \/ Transmit(r)
    \/ BackgroundCleanup(r)

\* requests in flight together
Next == \E r \in Reqs : Arrive(r) \/ Step(r, {VideoMp4, TextPlain}, FewPlans)

Spec == Init /\ [][Next]_vars

\* one request at a time, with every plan of numeric entries
NextOne == Arrive(1) \/ Step(1, ContentTypes, NumericPlans)

SpecOne == Init /\ [][NextOne]_vars

\* one request at a time, with every document as its plan
NextParse == Arrive(1) \/ Step(1, {VideoMp4}, AllPlans)

SpecParse == Init /\ [][NextParse]_vars

\* cleanup_files alone, on every directory and list of paths
NextCleanup == CallCleanup(1)

SpecCleanup == InitCleanup /\ [][NextCleanup]_vars

\* ------------------------------------------------------------ the claims
Done(r) == pc[r] = "done"

\* the files of the scratch directory that request r wrote last
FilesOf(r) == {p \in DOMAIN fs : fs[p].writer = r}

\* the paths request r derives from what it was sent
SourcePath(r) == TempName(r, VideoExt(req[r].filename))
ArchivePath(r) == InTemp(ZipFilename(req[r].filename))
PlanLen(r) == Len(req[r].clips.items)

\* the name the spec gives the k-th clip (k = 1..n) of a plan of n entries
SpecClipName(r, k) ==
    BaseFilename(req[r].filename) \o
        (IF PlanLen(r) = 1 THEN <<"_clip", ".", "mp4">>
         ELSE <<"_clip", "_", Str(k), ".", "mp4">>)

\* C1: once a request has finished, on whatever exit path, no file it created
\* in the scratch directory still exists.
C1_NoFileLeftWhenDone ==
    \A r \in Reqs : Done(r) => FilesOf(r) = {}

\* the k-th extraction of request r failed: the call raised, or the clip file
\* was absent afterwards (main.py:285-288, 297-300)
ClipFailedAt(r, k) ==
    /\ Done(r)
    /\ resp[r].detail \in {<<"Failed to create clip", k>>,
                           <<"Clip was not created successfully", k>>}

\* C2: when the k-th clip extraction fails, then at the time the error is
\* returned no archive exists, and the source and the clips 1..k-1 are removed.
C2_ClipFailureCleansUp ==
    \A r \in Reqs : \A k \in 1..MaxPlanLen :
        ClipFailedAt(r, k) =>
            /\ ~Exists(fs, ArchivePath(r))
            /\ ~Exists(fs, SourcePath(r))
            /\ \A j \in 1..(k - 1) : ~Exists(fs, InTemp(SpecClipName(r, j)))

\* request r took a step: every action of r changes its pc or its task
Acted(r) == pc'[r] # pc[r] \/ bg'[r] # bg[r]

\* C3: no write and no cleanup of one request deletes, truncates or overwrites
\* a file of another request that is still in flight.
C3_NoInterference ==
    [][\A p \in DOMAIN fs :
          ( /\ ~Done(fs[p].writer)
            /\ (p \notin DOMAIN fs' \/ fs'[p] # fs[p]) )
          => Acted(fs[p].writer)]_vars

\* the archive the spec promises for the plan of request r
SpecArchive(r) == [k \in 1..PlanLen(r) |-> SpecClipName(r, k)]

\* the extraction the spec promises for the k-th entry of the plan
SpecSubclipCall(r, k) ==
    <<"subclip", req[r].clips.items[k].start.v, req[r].clips.items[k].end.v,
      InTemp(SpecClipName(r, k))>>

\* C4: /clip extracts once per plan entry, in plan order (the calls made so
\* far are the probe and then the extractions of entries 1, 2, ...), and when
\* every extraction succeeded the archive holds exactly one entry per plan
\* entry, in plan order, named {base}_clip.mp4 for a plan of one entry and
\* {base}_clip_{i}.mp4 otherwise.
C4_OnceEachInPlanOrder ==
    \A r \in Reqs : req[r].endpoint = "clip" =>
        /\ Len(calls[r]) <= PlanLen(r) + 1
        /\ \A n \in 1..Len(calls[r]) :
              IF n = 1 THEN calls[r][n][1] = "probe"
              ELSE calls[r][n] = SpecSubclipCall(r, n - 1)
        /\ pc[r] = "send" =>
              /\ Len(calls[r]) = PlanLen(r) + 1
              /\ Exists(fs, ArchivePath(r))
              /\ fs[ArchivePath(r)].content = SpecArchive(r)
        /\ resp[r].status = 200 =>
              /\ Len(calls[r]) = PlanLen(r) + 1
              /\ resp[r].body.content = SpecArchive(r)

C4_Witness ==
    \E r \in Reqs :
        /\ req[r].endpoint = "clip"
        /\ resp[r].status = 200
        /\ PlanLen(r) >= 2

\* the plan holds an entry with end <= start or with a negative start or end
HasBadRange(clips) ==
    \E k \in 1..Len(clips.items) :
        LET c == clips.items[k]
        IN  /\ c.isDict /\ c.start.t = "num" /\ c.end.t = "num"
            /\ (c.end.v <= c.start.v \/ c.start.v < 0 \/ c.end.v < 0)

\* C5: a /clip request whose plan holds an entry with end <= start or a
\* negative start or end fails with 400, with no scratch file written and no
\* media-engine call made.
C5_BadRangeRejectedFirst ==
    \A r \in Reqs : HasBadRange(req[r].clips) =>
        /\ Done(r)
        /\ resp[r].status = 400
        /\ calls[r] = <<>>
        /\ DOMAIN fs = {}
        /\ cleanups[r] = 0

C5_Witness ==
    \E r \in Reqs :
        /\ Done(r)
        /\ PlanLen(r) >= 2
        /\ ~HasBadRange(JsonList(<<req[r].clips.items[1]>>))
        /\ HasBadRange(req[r].clips)

\* the duration the probe of request r returned (0: no probe returned)
Probed(r) ==
    IF calls[r] # <<>> /\ calls[r][1][1] = "probe" THEN calls[r][1][2] ELSE 0

\* the entries (1-based) of the plan of r that end after the probed duration
Exceeding(r) ==
    {k \in 1..PlanLen(r) : req[r].clips.items[k].end.v > Probed(r)}

Lowest(S) == CHOOSE k \in S : \A j \in S : k <= j

\* C6: when an entry of a structurally valid plan ends after the probed
\* duration, /clip fails with 400 naming the lowest such index (0-based), that
\* entry's end and the duration, with no archive opened and no extraction made.
C6_RangeExceedsReportsFirst ==
    \A r \in Reqs :
        (req[r].endpoint = "clip" /\ Probed(r) > 0 /\ Exceeding(r) # {}) =>
            /\ pc[r] \in {"validate", "done"}
            /\ Len(calls[r]) = 1
            /\ ~Exists(fs, ArchivePath(r))
            /\ Done(r) =>
                  /\ resp[r].status = 400
                  /\ resp[r].detail =
                        <<"end time exceeds video duration", Lowest(Exceeding(r)) - 1,
                          req[r].clips.items[Lowest(Exceeding(r))].end.v, Probed(r)>>

C6_Witness ==
    \E r \in Reqs :
        /\ Done(r)
        /\ Probed(r) > 0
        /\ Cardinality(Exceeding(r)) >= 2

\* C7: a /clip client never gets a partial result: the archive delivered with a
\* 200 is the one this request built, with an entry for every entry of its
\* plan, and a request one of whose clips failed gets an error and no archive.
C7_AllOrNothing ==
    \A r \in Reqs : req[r].endpoint = "clip" =>
        /\ resp[r].status = 200 =>
              /\ resp[r].body.writer = r
              /\ resp[r].body.content = SpecArchive(r)
        /\ (\E k \in 1..MaxPlanLen : ClipFailedAt(r, k)) =>
              /\ resp[r].status \in {400, 500}
              /\ resp[r].body = NoBody

Range(f) == {f[k] : k \in DOMAIN f}

\* the cleanup set the spec promises on success
SpecCleanupSet(r) ==
    IF req[r].endpoint = "convert"
    THEN {SourcePath(r), InTemp(AudioFilename(req[r].filename))}
    ELSE {SourcePath(r), ArchivePath(r)}
            \cup {InTemp(SpecClipName(r, k)) : k \in 1..PlanLen(r)}

\* C8: on the success path the request's own cleanup is a post-response task:
\* cleanup_files has not been entered while the artifact is still to be sent,
\* and the task's paths are exactly {source, output} for /convert and
\* {source, archive, every clip output} for /clip.
C8_CleanupAfterTransmission ==
    \A r \in Reqs :
        /\ pc[r] = "send" =>
              /\ cleanups[r] = 0
              /\ bg[r].left = bg[r].args
              /\ Range(bg[r].args) = SpecCleanupSet(r)
        /\ pc[r] = "background" =>
              /\ resp[r].status = 200
              /\ Range(bg[r].args) = SpecCleanupSet(r)
        /\ (Done(r) /\ resp[r].status = 200) =>
              /\ cleanups[r] = 1
              /\ bg[r].left = <<>>
              /\ Range(bg[r].args) = SpecCleanupSet(r)
        /\ (cleanups[r] > 0 /\ resp[r].status \in {0, 200}) =>
              pc[r] \in {"background", "done"}

C8_Witness ==
    \E r \in Reqs :
        /\ req[r].endpoint = "clip"
        /\ Done(r)
        /\ resp[r].status = 200
        /\ PlanLen(r) >= 2
        /\ cleanups[r] = 1

\* the declared content type is missing or does not start with "video/"
NotVideoType(content_type) ==
    \/ ~content_type.some
    \/ Len(content_type.s) < 2
    \/ content_type.s[1] # "video"
    \/ content_type.s[2] # "/"

\* C9: an upload whose content type is missing or does not start with
\* "video/" is rejected with 400, and nothing happened: no file written, no
\* plan parsed, no media-engine call.
C9_NonVideoRejectedUntouched ==
    \A r \in Reqs :
        (pc[r] \notin {"idle", "check_type"} /\ NotVideoType(req[r].content_type)) =>
            /\ Done(r)
            /\ resp[r].status = 400
            /\ DOMAIN fs = {}
            /\ req[r].clips = NoRequest.clips
            /\ loc[r] = NoLocals
            /\ calls[r] = <<>>

C9_Witness ==
    \E r \in Reqs :
        /\ req[r].endpoint = "clip"
        /\ Done(r)
        /\ req[r].content_type = TextPlain

\* the request left the handler from inside its try block (main.py:101, 220):
\* every exit but the 400 of the content type and the 400 of the plan parser
LeftTryBlock(r) ==
    /\ Done(r)
    /\ \/ resp[r].status # 400
       \/ resp[r].detail[1] = "end time exceeds video duration"

\* C10: cleanup_files runs exactly once on every exit path, as the
\* post-response task or right before the error is returned.  Stated for the
\* exits that can have files to clean, those from inside the try block.
C10_CleanupExactlyOnce ==
    \A r \in Reqs : LeftTryBlock(r) => cleanups[r] = 1

\* an entry as the spec wants it: an object whose start and end are both
\* numbers, both non-negative, with end > start
SpecValidEntry(c) ==
    /\ c.isDict
    /\ c.start.t = "num" /\ c.end.t = "num"
    /\ c.start.v >= 0 /\ c.end.v >= 0
    /\ c.end.v > c.start.v

\* a plan as the spec wants it: well-formed JSON, a non-empty list, every
\* entry valid
SpecAcceptsPlan(clips) ==
    /\ clips.wellformed
    /\ clips.isList
    /\ clips.items # <<>>
    /\ \A k \in 1..Len(clips.items) : SpecValidEntry(clips.items[k])

\* the rules an entry breaks, in the words of the parser's messages
SpecRulesBroken(c) ==
    IF ~c.isDict THEN {"must be a dictionary"}
    ELSE IF c.start.t = "missing" \/ c.end.t = "missing"
        THEN {"must have 'start' and 'end' keys"}
    ELSE IF c.start.t # "num" \/ c.end.t # "num"
        THEN {"start and end must be numbers"}
    ELSE {"start and end must be non-negative" : x \in {1} \cap
              (IF c.start.v < 0 \/ c.end.v < 0 THEN {1} ELSE {})}
         \cup {"end must be greater than start" : x \in {1} \cap
              (IF c.end.v <= c.start.v THEN {1} ELSE {})}

\* the entries (1-based) of the plan of r that break a rule
Violating(r) ==
    {k \in 1..PlanLen(r) : ~SpecValidEntry(req[r].clips.items[k])}

\* the handler of r is past the parser with a plan in hand
Parsed(r) ==
    /\ req[r].endpoint = "clip"
    /\ IsVideo(req[r].content_type)
    /\ pc[r] \notin {"idle", "check_type", "parse"}

\* the parser rejected the plan of r: the request ended with 400 before any
\* file was created or any engine call made
ParserRejected(r) ==
    Done(r) /\ resp[r].status = 400 /\ calls[r] = <<>> /\ FilesOf(r) = {}

\* C12: the parser of /clip accepts a plan if and only if it is well-formed
\* JSON holding a non-empty list of objects whose start and end are numbers,
\* non-negative, with end > start; it rejects every other plan with 400, and
\* when entries are bad it names the lowest bad index (0-based) and a rule
\* that entry breaks.
C12_ParserAcceptsExactlyValidPlans ==
    \A r \in Reqs : Parsed(r) =>
        /\ ParserRejected(r) <=> ~SpecAcceptsPlan(req[r].clips)
        /\ (ParserRejected(r) /\ req[r].clips.isList /\ Violating(r) # {}) =>
              /\ resp[r].detail[2] = Lowest(Violating(r)) - 1
              /\ resp[r].detail[1] \in
                    SpecRulesBroken(req[r].clips.items[Lowest(Violating(r))])

\* the paths the failure handlers of request r clean up: temp_video_path,
\* temp_audio_path or temp_zip_path, and clip_paths (main.py:149, 313, 334)
Recorded(r) ==
    {loc[r].temp_video_path, loc[r].temp_out_path} \cup Range(loc[r].clip_paths)

\* the handler of r stands before a step that can fail: the upload read and
\* write, the probe, an extraction, an existence check, the add to the archive
AtFalliblePoint(r) ==
    pc[r] \in {"read", "probe", "extract_audio", "extract", "check_clip",
               "add_zip", "check_output"}

\* C11: wherever a step of a request can fail, every scratch file the request
\* has created so far is recorded in the variables its failure handlers clean
\* up: the source before the upload write, a clip before it is added to the
\* archive.
C11_RecordedBeforeFailure ==
    \A r \in Reqs : AtFalliblePoint(r) => FilesOf(r) \subseteq Recorded(r)

\* C13: when /clip rejects a plan because an entry ends after the probed
\* duration, the persisted source file is gone when the 400 is returned.
C13_RangeFailureRemovesSource ==
    \A r \in Reqs :
        ( /\ req[r].endpoint = "clip"
          /\ Done(r)
          /\ Probed(r) > 0
          /\ Exceeding(r) # {} )
        => ~Exists(fs, SourcePath(r))

AudioPath(r) == InTemp(AudioFilename(req[r].filename))

\* the audio extraction of a /convert request failed: the engine was called
\* and the request ended without reaching the return of main.py:136-143
AudioExtractionFailed(r) ==
    /\ req[r].endpoint = "convert"
    /\ Done(r)
    /\ calls[r] # <<>>
    /\ bg[r].args = <<>>

\* C14: when the audio extraction of /convert fails (the engine raises, or it
\* returns and the output file is absent), the request ends with 500, and by
\* then its source file and any output file it wrote are removed.
C14_ConvertFailureCleansUp ==
    \A r \in Reqs : AudioExtractionFailed(r) =>
        /\ resp[r].status = 500
        /\ ~Exists(fs, SourcePath(r))
        /\ ~(Exists(fs, AudioPath(r)) /\ fs[AudioPath(r)].writer = r)

C14_Witness ==
    \E r \in Reqs :
        /\ AudioExtractionFailed(r)
        /\ resp[r].detail = <<"Error converting video">>
        /\ cleanups[r] = 1

\* a step of request r in which an extraction starts (the engine is called
\* for a clip, the probe being the first call of a /clip request)
StartsExtraction(r) ==
    /\ req[r].endpoint = "clip"
    /\ Len(calls'[r]) = Len(calls[r]) + 1
    /\ calls'[r][Len(calls'[r])][1] = "subclip"

\* C15: the clip steps of one request are strictly sequential.  The extraction
\* of an entry starts only when every earlier entry has been extracted, found
\* to exist and added to the archive; an entry is added to the archive only
\* after its existence check was made and found the file; and a failed
\* existence check ends the request, after which no extraction ever starts.
C15_ClipStepsSequential ==
    [][\A r \in Reqs :
          /\ StartsExtraction(r) =>
                /\ pc[r] = "extract"
                /\ Len(calls[r]) = loc[r].i + 1
                /\ Len(loc[r].zipf) = loc[r].i
                /\ Len(loc[r].clip_paths) = loc[r].i
          /\ (pc'[r] = "add_zip" /\ pc[r] # "add_zip") =>
                pc[r] = "check_clip" /\ Exists(fs, ClipPath(r))
          /\ Len(loc'[r].zipf) > Len(loc[r].zipf) =>
                pc[r] = "add_zip" /\ Len(loc'[r].zipf) = loc[r].i + 1
          /\ (pc[r] = "check_clip" /\ ~Exists(fs, ClipPath(r)) /\ pc'[r] # pc[r]) =>
                Done(r)'
          /\ Done(r) => (Done(r)' /\ calls'[r] = calls[r])
      ]_vars

C15_Witness ==
    \E r \in Reqs :
        /\ pc[r] = "check_clip"
        /\ loc[r].i = 1
        /\ Len(calls[r]) = 3
        /\ ~Exists(fs, ClipPath(r))

\* the probe of request r raised (main.py:232-234)
ProbeFailed(r) ==
    calls[r] # <<>> /\ calls[r][1][1] = "probe" /\ calls[r][1][2] = 0

\* what the causes the client is responsible for look like in a finished
\* request: its content type, its plan, its plan against the probed duration
ClientCaused(r) ==
    \/ NotVideoType(req[r].content_type)
    \/ /\ req[r].endpoint = "clip"
       /\ IsVideo(req[r].content_type)
       /\ \/ ~SpecAcceptsPlan(req[r].clips)
          \/ (Probed(r) > 0 /\ Exceeding(r) # {})

\* C17: every failing request is classified by its cause.  A wrong content
\* type, a malformed plan and a range beyond the duration give 400; a failed
\* probe, audio extraction or clip extraction, a missing output file and a
\* missing archive give 500; a 200 is given only when every step was made and
\* none failed; and the 400 raised inside the try block leaves the handler as
\* a 400, not through the handler of the other exceptions.
C17_FailuresClassified ==
    /\ [](\A r \in Reqs : Done(r) =>
            /\ resp[r].status \in {200, 400, 500}
            /\ ClientCaused(r) => resp[r].status = 400
            /\ ProbeFailed(r) => resp[r].status = 500
            /\ resp[r].status = 200 =>
                  /\ ~ClientCaused(r)
                  /\ ~ProbeFailed(r)
                  /\ Len(calls[r]) =
                        IF req[r].endpoint = "clip" THEN PlanLen(r) + 1 ELSE 1)
    /\ [][\A r \in Reqs :
            /\ (pc[r] \in {"check_type", "parse", "validate"} /\ Done(r)') =>
                  resp'[r].status = 400
            /\ (pc[r] \in {"extract", "check_clip", "check_output", "except"}
                    /\ Done(r)') =>
                  resp'[r].status = 500
            /\ (pc'[r] = "except" /\ pc[r] # "except") =>
                  pc[r] \in {"read", "probe", "extract_audio", "add_zip"}
            /\ (resp'[r].status = 200 /\ resp[r].status # 200) =>
                  pc[r] = "send" /\ Exists(fs, loc[r].temp_out_path)
            /\ resp[r].status # 0 => resp'[r] = resp[r]
        ]_vars

\* what a call of cleanup_files on the list args must remove from dir: every
\* entry of the list that exists and whose removal does not fail, with all
\* that lies below it
ToRemove(dir, args, bad) ==
    {q \in DOMAIN dir :
        \E p \in Range(args) \ {NoPath} :
            /\ p \in DOMAIN dir
            /\ ~RemovalRaises(dir, p, bad)
            /\ (q = p \/ Under(q, p))}

\* C16: cleanup_files is total and idempotent.  On any list of paths (None,
\* paths never created, paths already deleted, paths whose removal fails) it
\* does not raise; it removes every listed path whose removal does not fail,
\* whatever failed before it in the list, and nothing else; and a second call
\* with the same list changes nothing.
C16_CleanupTotalIdempotent ==
    /\ [](\A r \in Reqs : pc[r] # "raised")
    /\ [][\A r \in Reqs :
            /\ (pc[r] = "cleanup" /\ pc'[r] # pc[r]) =>
                  /\ DOMAIN fs' = DOMAIN fs \ ToRemove(fs, bg[r].args, failing)
                  /\ \A q \in DOMAIN fs' : fs'[q] = fs[q]
            /\ (pc[r] = "cleanup_again" /\ pc'[r] # pc[r]) =>
                  fs' = fs /\ pc'[r] = "done"
        ]_vars

C16_Witness ==
    \E r \in Reqs :
        /\ pc[r] = "done"
        /\ Len(calls[r]) = 2
        /\ Len(bg[r].args) = 2
        /\ bg[r].args[1] \in failing \cap DOMAIN fs
        /\ calls[r][1][2] > calls[r][2][2]
        /\ calls[r][2][2] = Cardinality(DOMAIN fs)

\* the handler of r has created its source file (and read the upload's name)
Created(r) == pc[r] \notin {"idle", "check_type", "parse", "create_temp"}

\* the paths request r derives from the client's file name
DerivedPaths(r) ==
    IF req[r].endpoint = "convert" THEN {AudioPath(r)}
    ELSE {ArchivePath(r)} \cup {InTemp(SpecClipName(r, k)) : k \in 1..PlanLen(r)}

\* C18: the source path is fresh per request.  No two requests share a source
\* path, no source path equals an output, clip or archive path that it or any
\* other request derives from a file name, and the source file of a request is
\* changed or removed by that request's own steps only, also when both
\* uploads carry the same file name.
C18_SourcePathFresh ==
    /\ [](\A r \in Reqs : \A q \in Reqs : (Created(r) /\ Created(q)) =>
            /\ r # q => SourcePath(r) # SourcePath(q)
            /\ SourcePath(r) \notin DerivedPaths(q))
    /\ [][\A r \in Reqs :
            ( /\ Created(r)
              /\ Exists(fs, SourcePath(r))
              /\ \/ ~Exists(fs', SourcePath(r))
                 \/ fs'[SourcePath(r)] # fs[SourcePath(r)] )
            => Acted(r)
        ]_vars

C18_Witness ==
    \E r \in Reqs : \E q \in Reqs :
        /\ r # q
        /\ req[r].filename = req[q].filename
        /\ Truthy(req[r].filename)
        /\ Done(q) /\ resp[q].status = 200 /\ cleanups[q] = 1
        /\ pc[r] = "send"
        /\ Exists(fs, SourcePath(r))

====
